---- MODULE Spec2Model ----
(***************************************************************************)
(* automate_audio_workflow.py: a single worker thread drains a FIFO queue   *)
(* of base names and runs the three pipeline steps according to the         *)
(* per-base metadata record; a watchdog observer thread enqueues base names *)
(* on new .wav files and on edited .ass files; main either seeds metadata   *)
(* and enqueues one base name (--resume) or keeps the observer running.     *)
(***************************************************************************)
EXTENDS Integers, Sequences, FiniteSets, TLC

\* ------------------------------------------------------------------ bounds
MaxQueue == 1

NumContents == 2

\* wait_until_stable: the largest timeout, stable_time and poll (in ticks)
\* and the largest file size a call is given.
MaxTimeout == 3

MaxStable == 2

MaxPoll == 2

MaxSize == 2

\* ------------------------------------------------------------- value sets
Bases == {"demo"}

NoBase == "-"

Sentinel == "None"

NoFile == 0

Contents == 1..NumContents

NoHash == <<"none", 0>>

\* datetime.datetime.utcnow().isoformat(): every time stamp is one value.
NoStamp == "absent"

utcnow == "utc"

Steps == {1, 2, 3}

\* file_hash: SHA-256 of the file content, an injective digest of it.
file_hash(c) == <<"sha256", c>>

Hashes == {file_hash(c) : c \in Contents}

\* json metadata record; an absent key of steps_completed reads as FALSE,
\* an absent ass_hash as NoHash, an absent last_updated as NoStamp.
EmptyMeta == [process_audio |-> FALSE, ass_to_srt |-> FALSE, translate |-> FALSE,
              ass_hash |-> NoHash, last_updated |-> NoStamp]

\* m.get("steps_completed", {}): the flags of a record.
Completed(m) == [process_audio |-> m.process_audio, ass_to_srt |-> m.ass_to_srt,
                 translate |-> m.translate]

NoFlags == Completed(EmptyMeta)

Flag(m, s) == IF s = 1 THEN m.process_audio ELSE IF s = 2 THEN m.ass_to_srt ELSE m.translate

\* A bug: the flags are replaced by the flag of step s alone.
MarkDone_alone(m, s) ==
  [m EXCEPT !.process_audio = (s = 1), !.ass_to_srt = (s = 2), !.translate = (s = 3),
            !.last_updated = utcnow]

\* The record with the flag of step s set and last_updated stamped
\* (lines 71-72, 79-80, 177-178).
MarkDone(m, s) == IF s = 1 THEN [m EXCEPT !.process_audio = TRUE, !.last_updated = utcnow]
                  ELSE IF s = 2 THEN [m EXCEPT !.ass_to_srt = TRUE, !.last_updated = utcnow]
                  ELSE [m EXCEPT !.translate = TRUE, !.last_updated = utcnow]

ZeroExecs == [s \in Steps |-> 0]

NoPass == [fresh |-> FALSE, timedOut |-> FALSE, content |-> NoFile]

NoRedo == [detected |-> FALSE, re2 |-> FALSE, re3 |-> FALSE]

\* Bookkeeping of a queue entry.  Under "src": who put it ("wav", "ass",
\* "resume") and, for "resume", the --from-step given.  Under "fifo": its
\* ticket, the number of puts before it modulo TicketMod.
NoTag == [src |-> "-", no |-> 0]

TicketMod == MaxQueue + 2

\* The histories: "count" records edited, passes and execs; "prev" records
\* prev; "obs" records olast; "redo" records redo; "ran" records ran.  The
\* histories of the current pass are always recorded.  "src" records the
\* source of every queue entry, "fifo" its ticket; "wait" and "save" select
\* wait_until_stable and save_meta / load_meta taken on their own.  "rmw"
\* records missed.
Tracks == {"count", "prev", "obs", "redo", "ran", "src", "fifo", "wait", "save", "rmw"}

VARIABLES
  \* --- disk (survives the process)
  meta,        \* base -> record in <base>.meta.json (EmptyMeta: no file)
  assWork,     \* base -> content of SCRIPT_DIR/<base>.ass, NoFile if absent
  origWork,    \* base -> SCRIPT_DIR/<base>.ass.orig exists
  \* --- process
  mode,        \* "watch" | "resume" (args.resume given)
  mpc,         \* main thread position
  queue,       \* work_q
  wpc,         \* worker thread position
  wbase,       \* worker: base
  wbranch,     \* worker: "resume" (line 65 true) | "full" (line 82) | "-"
  wm,          \* worker: the steps_completed of m, line 63
  wmeta,       \* worker: meta of lines 70/78/89/175
  opc,         \* observer thread position
  obase,       \* observer: base of the event being handled
  onew,        \* observer: new_hash
  ometa,       \* observer: meta of line 357
  wavPending,  \* bases with an undelivered .wav created event
  modPending,  \* bases with an undelivered .ass modified event
  \* --- history
  track,       \* which of the process-wide histories below is recorded
  ran,         \* base -> steps whose external call has returned success (run)
               \*         and steps whose flag --resume has seeded (seed)
  \* --- history, per process
  edited,      \* base -> an .ass modification event happened
  passes,      \* base -> worker passes started (saturating)
  execs,       \* base -> step -> times the step returned normally (saturating)
  prev,        \* base -> how the previous pass went
  pinv,        \* steps invoked in the current pass, in order
  pok,         \* steps that returned normally in the current pass
  pfail,       \* step that raised in the current pass, 0 if none
  psaved,      \* steps whose flag the worker persisted in the current pass
  pinfo,       \* facts about the current pass
  olast,       \* what the last on_modified call did
  redo,        \* base -> edit detection bookkeeping
  qsrc,        \* the tags of the entries of work_q, in queue order
  wsrc,        \* the tag of the entry the worker is processing
  nput,        \* tickets handed out so far, modulo TicketMod
  nget,        \* entries taken by the worker so far, modulo TicketMod
  missed,      \* thread -> the update the other thread saved since this
               \*           thread's load_meta, while its save is pending
  \* --- one call of wait_until_stable (time in ticks)
  wus_pc,       \* "idle" | "poll" (in the while loop) | "returned"
  timeout,      \* argument
  stable_time,  \* argument
  poll,         \* argument
  clock,        \* time.time()
  start,        \* local
  last_size,    \* local
  stable_since, \* local
  ret,          \* the value returned, "none" before the return
  samples,      \* history: every size the call has sampled, in order
  \* --- save_meta / load_meta of one base name, two threads
  metaFile,     \* content of <base>.meta.json, NoText if the file is absent
  tmpFile,      \* content of <base>.meta.json.tmp, NoText if absent
  spc,          \* thread -> position in save_meta
  srec,         \* thread -> the record passed to save_meta
  sfd,          \* thread -> the file its open handle refers to
  loaded,       \* what the last load_meta returned
  saved         \* history: the records passed to save_meta so far

disk == <<meta, assWork, origWork>>

files == <<assWork, origWork>>

mainv == <<mode, mpc>>

workerv == <<wpc, wbase, wbranch, wm, wmeta>>

obsv == <<opc, obase, onew, ometa>>

events == <<wavPending, modPending>>

passh == <<pinv, pok, pfail, psaved, pinfo>>

tagv == <<qsrc, wsrc, nput, nget>>

waitv == <<wus_pc, timeout, stable_time, poll, clock, start, last_size, stable_since,
           ret, samples>>

savev == <<metaFile, tmpFile, spc, srec, sfd, loaded, saved>>

sub == <<waitv, savev, missed>>

hist == <<track, sub, ran, edited, passes, execs, prev, pinv, pok, pfail, psaved, pinfo, olast, redo>>

vars == <<meta, assWork, origWork, mode, mpc, queue,
          wpc, wbase, wbranch, wm, wmeta, opc, obase, onew, ometa,
          wavPending, modPending, track, ran,
          edited, passes, execs, prev, pinv, pok, pfail, psaved, pinfo, olast, redo,
          qsrc, wsrc, nput, nget, missed,
          wus_pc, timeout, stable_time, poll, clock, start, last_size, stable_since,
          ret, samples,
          metaFile, tmpFile, spc, srec, sfd, loaded, saved>>

\* ------------------------------------------------- wait_until_stable, data
\* lines 315, 323: the size of a file that os.path.getsize cannot read.
UnknownSize == -1

Sizes == (0..MaxSize) \cup {UnknownSize}

\* line 326: time.time() - stable_since >= stable_time, a bug: > for >=.
StableFor_strict(now, since, st) == now - since > st

\* line 326: time.time() - stable_since >= stable_time.
StableFor(now, since, st) == now - since >= st

\* line 332: time.time() - start > timeout.
TimedOut(now, st, to) == now - st > to

\* No call of wait_until_stable is in progress.
WaitIdle ==
  /\ wus_pc = "idle" /\ timeout = 0 /\ stable_time = 0 /\ poll = 0
  /\ clock = 0 /\ start = 0 /\ last_size = UnknownSize /\ stable_since = 0
  /\ ret = "none" /\ samples = <<>>

\* --------------------------------------------- save_meta / load_meta, data
\* The two threads that call save_meta: worker_loop and on_modified.
Threads == {"worker", "watcher"}

\* The content of a file is a sequence of tokens; NoText: no such file.
NoText == <<"no file">>

\* The keys of steps_completed, in the order the code inserts them.
Keys == <<"process_audio", "ass_to_srt", "translate">>

\* A record is the set of the keys it holds; load_meta returns {} when the
\* file does not exist (line 127).
Records == SUBSET {Keys[i] : i \in DOMAIN Keys}

\* The records a thread passes to save_meta: the worker the flags of the
\* steps up to the one it completed (lines 71, 79, 90-91, 177), the watcher
\* a record without ass_to_srt and translate (lines 362-363).
Passes(t) == IF t = "watcher" THEN {{}, {Keys[1]}}
             ELSE {{Keys[i] : i \in 1..n} : n \in 0..Len(Keys)}

\* json.dump (line 133): the text of a record.
dumps(r) == <<"{">> \o SelectSeq(Keys, LAMBDA k : k \in r) \o <<"}">>

\* json.load (line 126): the record of a text, an error for any other text.
loads(text) ==
  IF \E r \in Records : dumps(r) = text
  THEN [kind |-> "record", rec |-> CHOOSE r \in Records : dumps(r) = text]
  ELSE [kind |-> "error", rec |-> {}]

\* load_meta, lines 121-127.
load_meta(file) == IF file = NoText THEN [kind |-> "record", rec |-> {}] ELSE loads(file)

\* A handle opened with "w" writes its buffer at offset 0 when it is closed;
\* what another handle wrote beyond that stays.
WriteAt0(file, text) == text \o SubSeq(file, Len(text) + 1, Len(file))

NotLoaded == [kind |-> "none", rec |-> {}]

\* No save_meta is in progress and nothing was saved or loaded.
SaveIdle ==
  /\ metaFile = NoText /\ tmpFile = NoText
  /\ spc = [t \in Threads |-> "idle"]
  /\ srec = [t \in Threads |-> {}]
  /\ sfd = [t \in Threads |-> "none"]
  /\ loaded = NotLoaded
  /\ saved = {}

\* ------------------------------------------- read-modify-write bookkeeping
\* The updates of a record: "s1" (lines 176-178, with the hash), "s2"
\* (lines 71-72), "s3" (lines 79-80), "fin" (lines 90-92), "pop" (lines
\* 361-363, with the hash).
NoOp == [kind |-> "none", hash |-> NoHash]

\* The worker / on_modified has loaded a record and not yet saved it.
WorkerPending == wpc \in {"s1_save", "upd2_save", "upd3_save", "fin_save"}

WatcherPending == opc = "mod_cmp"

\* Bookkeeping: thread t loads a record it is going to update, or returns
\* without saving the record it loaded.
Fresh(t) == missed' = IF track = "rmw" THEN [missed EXCEPT ![t] = NoOp] ELSE missed

\* Bookkeeping: thread t saves the update op; the other thread has a save
\* pending (based on an older load) or not.
Saves(t, op, otherPending) ==
  missed' = IF track = "rmw"
           THEN [u \in Threads |-> IF u # t /\ otherPending THEN op ELSE NoOp]
           ELSE missed

\* ------------------------------------------------------------------- Init
\* A fresh installation: no metadata, no subtitle files; the process is
\* started with or without --resume.  The worker thread is started at
\* import time (lines 101-102) and blocks on the empty queue.
Init ==
  /\ meta = [b \in Bases |-> EmptyMeta]
  /\ assWork = [b \in Bases |-> NoFile]
  /\ origWork = [b \in Bases |-> FALSE]
  /\ mode \in {"watch", "resume"}
  /\ mpc = IF mode = "resume" THEN "resume" ELSE "watching"
  /\ queue = <<>>
  /\ wpc = "get" /\ wbase = NoBase /\ wbranch = "-"
  /\ wm = NoFlags /\ wmeta = EmptyMeta
  /\ opc = "idle" /\ obase = NoBase /\ onew = NoHash /\ ometa = EmptyMeta
  /\ wavPending = {} /\ modPending = {}
  /\ track \in Tracks
  /\ ran = [b \in Bases |-> [run |-> {}, seed |-> {}]]
  /\ edited = [b \in Bases |-> FALSE]
  /\ passes = [b \in Bases |-> 0]
  /\ execs = [b \in Bases |-> ZeroExecs]
  /\ prev = [b \in Bases |-> "none"]
  /\ pinv = <<>> /\ pok = {} /\ pfail = 0 /\ psaved = {} /\ pinfo = NoPass
  /\ olast = "none"
  /\ redo = [b \in Bases |-> NoRedo]
  /\ qsrc = <<>> /\ wsrc = NoTag /\ nput = 0 /\ nget = 0
  /\ missed = [t \in Threads |-> NoOp]
  /\ WaitIdle
  /\ SaveIdle

\* The threads run while the process lives (the worker is a daemon thread).
Alive == mpc # "exited"

\* Events not yet turned into queue entries plus the queue itself.
Backlog == Len(queue) + Cardinality(wavPending) + Cardinality(modPending)
           + (IF opc = "idle" THEN 0 ELSE 1)

\* The events the environment may have outstanding at once; the ticket
\* history needs at least two entries waiting in the queue.
QueueCap == IF track = "fifo" /\ MaxQueue < 2 THEN 2 ELSE MaxQueue

\* Bookkeeping: the tag of an entry put by src (with --from-step fs).
Tag(src, fs) == IF track = "src" THEN [src |-> src, no |-> fs]
                ELSE IF track = "fifo" THEN [src |-> "-", no |-> nput]
                ELSE NoTag

\* Bookkeeping: an entry is put by src.
Put(src, fs) ==
  /\ qsrc' = Append(qsrc, Tag(src, fs))
  /\ nput' = IF track = "fifo" THEN (nput + 1) % TicketMod ELSE nput

\* ------------------------------------------------------------ environment
\* A new .wav file appears in Work_room while the observer is scheduled.
WavCreated(b) ==
  /\ mpc = "watching"
  /\ Backlog < QueueCap
  /\ b \notin wavPending
  /\ wavPending' = wavPending \cup {b}
  /\ UNCHANGED <<disk, mainv, queue, workerv, obsv, modPending, hist, tagv>>

\* Something (the batch script, an editor) writes SCRIPT_DIR/<base>.ass with
\* content c while the observer is scheduled: a modified event is delivered.
AssWritten(b, c) ==
  /\ mpc = "watching"
  /\ Backlog < QueueCap
  /\ b \notin modPending
  /\ assWork' = [assWork EXCEPT ![b] = c]
  /\ modPending' = modPending \cup {b}
  /\ IF track = "count"
     THEN /\ edited' = [edited EXCEPT ![b] = TRUE]
          /\ passes' = [passes EXCEPT ![b] = 3]
          /\ execs' = [execs EXCEPT ![b] = ZeroExecs]
     ELSE UNCHANGED <<edited, passes, execs>>
  /\ UNCHANGED <<meta, origWork, mainv, queue, workerv, obsv, wavPending, track, sub, tagv,
                 ran, prev, passh, olast, redo>>

\* ------------------------------------------------------------------- main
\* A bug: --from-step 2 seeds ass_to_srt as --from-step 3 does.
SeedMeta_offByOne(m, fs) ==
  IF fs <= 1 THEN m
  ELSE [m EXCEPT !.process_audio = TRUE, !.ass_to_srt = TRUE]

\* lines 413-427: the flags of the steps before from_step are seeded.
SeedMeta(m, fs) ==
  IF fs <= 1 THEN m
  ELSE IF fs = 2 THEN [m EXCEPT !.process_audio = TRUE]
  ELSE [m EXCEPT !.process_audio = TRUE, !.ass_to_srt = TRUE]

\* lines 411-428: --resume: seed the record, enqueue the base.
MainResume(b, fs) ==
  /\ mpc = "resume"
  /\ meta' = [meta EXCEPT ![b] = SeedMeta(meta[b], fs)]
  /\ queue' = Append(queue, b)
  /\ Put("resume", fs)
  /\ UNCHANGED <<wsrc, nget>>
  /\ mpc' = "join"
  /\ ran' = IF track = "ran" THEN [ran EXCEPT ![b].seed = @ \cup {s \in Steps : s < fs}]
            ELSE ran
  /\ UNCHANGED <<files, mode, workerv, obsv, events, track, sub, edited, passes, execs,
                 prev, passh, olast, redo>>

\* A bug: join returns as soon as the queue is empty.
AllTasksDone_emptyQueue == queue = <<>>

\* queue.Queue.join: every put has been matched by a task_done (line 98).
AllTasksDone == queue = <<>> /\ wpc = "get"

\* line 432: work_q.join() returns; main returns and the process exits.
MainJoin ==
  /\ mpc = "join"
  /\ AllTasksDone
  /\ mpc' = "exited"
  /\ UNCHANGED <<disk, mode, queue, workerv, obsv, events, hist, tagv>>

\* Ctrl+C: observer.stop(); events not yet dispatched are dropped.
MainInterrupt ==
  /\ mpc = "watching"
  /\ mpc' = "stopping"
  /\ wavPending' = {} /\ modPending' = {}
  /\ UNCHANGED <<disk, mode, queue, workerv, obsv, hist, tagv>>

\* observer.join() returns when the handler in flight has returned; main
\* returns and the daemon worker dies with the process.
MainExit ==
  /\ mpc = "stopping"
  /\ opc = "idle"
  /\ mpc' = "exited"
  /\ UNCHANGED <<disk, mode, queue, workerv, obsv, events, hist, tagv>>

\* The script is started again; only the disk is kept.
Restart ==
  /\ mpc = "exited"
  /\ mode' \in {"watch", "resume"}
  /\ mpc' = IF mode' = "resume" THEN "resume" ELSE "watching"
  /\ queue' = <<>>
  /\ wpc' = "get" /\ wbase' = NoBase /\ wbranch' = "-"
  /\ wm' = NoFlags /\ wmeta' = EmptyMeta
  /\ opc' = "idle" /\ obase' = NoBase /\ onew' = NoHash /\ ometa' = EmptyMeta
  /\ wavPending' = {} /\ modPending' = {}
  /\ edited' = [b \in Bases |-> FALSE]
  /\ passes' = [b \in Bases |-> 0]
  /\ execs' = [b \in Bases |-> ZeroExecs]
  /\ prev' = [b \in Bases |-> "none"]
  /\ pinv' = <<>> /\ pok' = {} /\ pfail' = 0 /\ psaved' = {} /\ pinfo' = NoPass
  /\ olast' = "none"
  /\ redo' = [b \in Bases |-> NoRedo]
  /\ qsrc' = <<>> /\ wsrc' = NoTag /\ nput' = 0 /\ nget' = 0
  /\ missed' = [t \in Threads |-> NoOp]
  /\ UNCHANGED <<disk, track, waitv, savev, ran>>

\* --------------------------------------------------------------- observer
\* Bookkeeping: what the on_modified call that returns did.
Seen(what) == IF track = "obs" THEN what ELSE olast

\* Bookkeeping: the handler detected changed content for its base.
Detected == IF track = "redo"
            THEN [redo EXCEPT ![obase] = [detected |-> TRUE, re2 |-> FALSE, re3 |-> FALSE]]
            ELSE redo

\* WavHandler.on_created: wait for stability, then enqueue the base name.
WavOnCreated(b, stable) ==
  /\ mpc = "watching" /\ opc = "idle"
  /\ b \in wavPending
  /\ wavPending' = wavPending \ {b}
  /\ queue' = IF stable THEN Append(queue, b) ELSE queue
  /\ IF stable THEN Put("wav", 0) ELSE UNCHANGED <<qsrc, nput>>
  /\ UNCHANGED <<wsrc, nget>>
  /\ UNCHANGED <<disk, mainv, workerv, obsv, modPending, hist>>

\* AssModifiedHandler.on_modified, lines 340-350: a modified event on
\* <base>.ass is dispatched and the handler starts wait_until_stable.
ModStart(b) ==
  /\ mpc = "watching" /\ opc = "idle"
  /\ b \in modPending
  /\ modPending' = modPending \ {b}
  /\ opc' = "mod_wait" /\ obase' = b
  /\ UNCHANGED <<disk, mainv, queue, workerv, onew, ometa, wavPending, hist, tagv>>

\* lines 350-357: wait_until_stable returns; on a timeout, or when file_hash
\* raises because the file is gone, the handler returns; else it hashes the
\* file and loads the record.
ModRead(stable) ==
  /\ Alive /\ opc = "mod_wait"
  /\ IF ~stable
     THEN opc' = "idle" /\ obase' = NoBase /\ olast' = Seen("timeout") /\ UNCHANGED <<onew, ometa>>
     ELSE IF assWork[obase] = NoFile
     THEN opc' = "idle" /\ obase' = NoBase /\ olast' = Seen("error") /\ UNCHANGED <<onew, ometa>>
     ELSE /\ opc' = "mod_cmp"
          /\ onew' = file_hash(assWork[obase])
          /\ ometa' = meta[obase]
          /\ UNCHANGED <<obase, olast>>
  /\ Fresh("watcher")
  /\ UNCHANGED <<disk, mainv, queue, workerv, events, track, waitv, savev, tagv, ran,
                 edited, passes, execs, prev, passh, redo>>

\* A bug: the handler does not compare the hashes.
HashChanged_always(old, new) == TRUE

\* line 359: old_hash != new_hash.
HashChanged(old, new) == old # new

\* A bug: the handler drops the whole steps_completed mapping.
PopDownstream_dropsAll(m, h) ==
  [m EXCEPT !.ass_hash = h, !.process_audio = FALSE, !.ass_to_srt = FALSE,
            !.translate = FALSE]

\* lines 361-363: the record the handler saves.
PopDownstream(m, h) == [m EXCEPT !.ass_hash = h, !.ass_to_srt = FALSE, !.translate = FALSE]

\* lines 358-365: on a changed hash save the record and enqueue the base.
ModSave ==
  /\ Alive /\ opc = "mod_cmp"
  /\ IF HashChanged(ometa.ass_hash, onew)
     THEN /\ meta' = [meta EXCEPT ![obase] = PopDownstream(ometa, onew)]
          /\ queue' = Append(queue, obase)
          /\ Put("ass", 0)
          /\ olast' = Seen("changed")
          /\ redo' = Detected
          /\ Saves("watcher", [kind |-> "pop", hash |-> onew],
                   WorkerPending /\ wbase = obase)
     ELSE /\ olast' = Seen("same")
          /\ Fresh("watcher")
          /\ UNCHANGED <<meta, queue, redo, qsrc, nput>>
  /\ UNCHANGED <<wsrc, nget>>
  /\ opc' = "idle" /\ obase' = NoBase /\ onew' = NoHash /\ ometa' = EmptyMeta
  /\ UNCHANGED <<files, mainv, workerv, events, track, waitv, savev, ran, edited, passes,
                 execs, prev, passh>>

\* ----------------------------------------------------------------- worker
\* A bug: the exception of a step leaves worker_loop and ends the thread.
Caught_not == "stopped"

\* lines 95-98: an exception raised by a step is caught inside the loop; the
\* worker goes on to the finally block.
Caught == "done"

\* Bookkeeping: step s returned normally for the worker's base.
Counted(s) ==
  IF track = "count" /\ passes[wbase] <= 2 /\ ~edited[wbase]
  THEN [execs EXCEPT ![wbase][s] = IF @ < 2 THEN @ + 1 ELSE @]
  ELSE execs

\* Bookkeeping: the external call of step s returned success.
Ran(s) == IF track = "ran" THEN [ran EXCEPT ![wbase].run = @ \cup {s}] ELSE ran

\* Bookkeeping: a step failed for the worker's base; an edit detected before
\* is no longer followed.
Excused == IF track = "redo" THEN [redo EXCEPT ![wbase] = NoRedo] ELSE redo

\* Bookkeeping: step s is invoked for the worker's base.
Redone(s) ==
  LET r == redo[wbase]
      n == IF s = 2 THEN [r EXCEPT !.re2 = r.detected]
           ELSE IF s = 3 THEN [r EXCEPT !.re3 = r.detected /\ r.re2]
           ELSE r
  IN IF track = "redo"
     THEN [redo EXCEPT ![wbase] = IF n.re2 /\ n.re3 THEN NoRedo ELSE n]
     ELSE redo

\* A bug: the queue hands out its newest entry.
Get_newest(q) == [task |-> q[Len(q)], rest |-> SubSeq(q, 1, Len(q) - 1)]

\* line 55, queue.Queue.get: the oldest entry leaves the queue.
Get(q) == [task |-> Head(q), rest |-> Tail(q)]

\* lines 55-60: task = work_q.get(); None ends the loop.
WorkerGet ==
  /\ Alive /\ wpc = "get"
  /\ queue # <<>>
  /\ queue' = Get(queue).rest
  /\ qsrc' = Get(qsrc).rest /\ wsrc' = Get(qsrc).task
  /\ nget' = IF track = "fifo" THEN (nget + 1) % TicketMod ELSE nget
  /\ UNCHANGED nput
  /\ IF Get(queue).task = Sentinel
     THEN wpc' = "stopped" /\ UNCHANGED <<wbase, passes, execs>>
     ELSE /\ wpc' = "load"
          /\ wbase' = Get(queue).task
          /\ passes' = IF track = "count"
                       THEN [passes EXCEPT ![wbase'] = IF @ < 3 THEN @ + 1 ELSE @]
                       ELSE passes
          /\ execs' = IF passes'[wbase'] = 3
                      THEN [execs EXCEPT ![wbase'] = ZeroExecs] ELSE execs
  /\ UNCHANGED <<disk, mainv, wbranch, wm, wmeta, obsv, events, track, sub, ran, edited,
                 prev, passh, olast, redo>>

\* line 67: step 2 is skipped when m has ass_to_srt.
SkipConvert(m) == m.ass_to_srt

\* A bug: line 75 never skips step 3.
SkipTranslate_never(m) == FALSE

\* line 75: step 3 is skipped when m has translate.
SkipTranslate(m) == m.translate

\* Where the resume branch goes after line 67's block.
AfterConvert(m) == IF SkipTranslate(m) THEN "done" ELSE "s3"

\* lines 63-67, 82: m = load_meta(base) and the choice of the branch.
WorkerLoad ==
  /\ Alive /\ wpc = "load"
  /\ wm' = Completed(meta[wbase])
  /\ pinfo' = [pinfo EXCEPT !.fresh = (meta[wbase] = EmptyMeta)]
  /\ IF meta[wbase].process_audio
     THEN /\ wbranch' = "resume"
          /\ wpc' = IF SkipConvert(meta[wbase]) THEN AfterConvert(meta[wbase]) ELSE "s2"
     ELSE /\ wbranch' = "full"
          /\ wpc' = "s1"
  /\ UNCHANGED <<disk, mainv, queue, wbase, wmeta, obsv, events, track, sub, tagv, ran,
                 edited, passes, execs, prev, pinv, pok, pfail, psaved, olast, redo>>

\* lines 68, 76, 84-86: the call of step s (its subprocess is started).
StartStep(s) ==
  /\ Alive /\ wpc = <<"s1", "s2", "s3">>[s]
  /\ wpc' = <<"s1_run", "s2_run", "s3_run">>[s]
  /\ pinv' = Append(pinv, s)
  /\ redo' = Redone(s)
  /\ UNCHANGED <<disk, mainv, queue, wbase, wbranch, wm, wmeta, obsv, events, track, sub,
                 tagv, ran, edited, passes, execs, prev, pok, pfail, psaved, pinfo, olast>>

\* lines 152-170: process_audio.bat returns; non-zero exit raises.  On
\* success the script has left f in SCRIPT_DIR/<base>.ass (NoFile: nothing);
\* the file must exist; with a preserved copy already in SCRIPT_DIR the step
\* returns, else the copy is made and wait_until_stable starts.
S1Return(ok, f) ==
  /\ Alive /\ wpc = "s1_run"
  /\ ran' = IF ok THEN Ran(1) ELSE ran
  /\ IF ~ok \/ f = NoFile
     THEN /\ wpc' = Caught /\ pfail' = 1
          /\ assWork' = IF ok THEN [assWork EXCEPT ![wbase] = f] ELSE assWork
          /\ redo' = Excused
          /\ UNCHANGED <<origWork, pok, execs, pinfo>>
     ELSE /\ assWork' = [assWork EXCEPT ![wbase] = f]
          /\ pinfo' = [pinfo EXCEPT !.content = f]
          /\ UNCHANGED redo
          /\ IF origWork[wbase]
             THEN /\ wpc' = "s2" /\ pok' = pok \cup {1} /\ execs' = Counted(1)
                  /\ UNCHANGED origWork
             ELSE /\ wpc' = "s1_wait"
                  /\ origWork' = [origWork EXCEPT ![wbase] = TRUE]
                  /\ UNCHANGED <<pok, execs>>
          /\ UNCHANGED pfail
  /\ UNCHANGED <<meta, mainv, queue, wbase, wbranch, wm, wmeta, obsv, events, track, sub,
                 tagv, edited, passes, prev, pinv, psaved, olast>>

\* lines 172-175: wait_until_stable returns; on a timeout the step returns,
\* else meta = load_meta(base).
S1Wait(stable) ==
  /\ Alive /\ wpc = "s1_wait"
  /\ IF stable
     THEN /\ wpc' = "s1_save" /\ wmeta' = meta[wbase]
          /\ UNCHANGED <<pok, execs, pinfo>>
     ELSE /\ wpc' = "s2" /\ pok' = pok \cup {1} /\ execs' = Counted(1)
          /\ pinfo' = [pinfo EXCEPT !.timedOut = TRUE]
          /\ UNCHANGED wmeta
  /\ Fresh("worker")
  /\ UNCHANGED <<disk, mainv, queue, wbase, wbranch, wm, obsv, events, track, waitv, savev,
                 tagv, ran, edited, passes, prev, pinv, pfail, psaved, olast, redo>>

\* lines 70, 78, 89: meta = load_meta(base).
Reload(from, to) ==
  /\ Alive /\ wpc = from
  /\ wmeta' = meta[wbase]
  /\ wpc' = to
  /\ Fresh("worker")
  /\ UNCHANGED <<disk, mainv, queue, wbase, wbranch, wm, obsv, events, track, waitv, savev,
                 ran, edited, passes, execs, prev, passh, olast, redo, tagv>>

\* lines 176-179: hash the file, set process_audio, save_meta.
S1Save ==
  /\ Alive /\ wpc = "s1_save"
  /\ wmeta' = EmptyMeta
  /\ IF assWork[wbase] = NoFile
     THEN /\ wpc' = Caught /\ pfail' = 1
          /\ Fresh("worker")
          /\ UNCHANGED <<meta, psaved>>
     ELSE /\ wpc' = "s1_move"
          /\ meta' = [meta EXCEPT ![wbase] =
                        MarkDone([wmeta EXCEPT !.ass_hash = file_hash(assWork[wbase])], 1)]
          /\ psaved' = psaved \cup {s \in {1} : Flag(meta'[wbase], s)}
          /\ Saves("worker", [kind |-> "s1", hash |-> file_hash(assWork[wbase])],
                   WatcherPending /\ obase = wbase)
          /\ UNCHANGED pfail
  /\ UNCHANGED <<files, mainv, queue, wbase, wbranch, wm, obsv, events, track, waitv, savev,
                 tagv, ran, edited, passes, execs, prev, pinv, pok, pinfo, olast, redo>>

\* lines 181-201: move <base>.ass and <base>.ass.orig to artifacts/<base>/.
S1Move ==
  /\ Alive /\ wpc = "s1_move"
  /\ IF assWork[wbase] = NoFile
     THEN /\ wpc' = Caught /\ pfail' = 1
          /\ UNCHANGED <<files, pok, execs>>
     ELSE /\ wpc' = "s2" /\ pok' = pok \cup {1} /\ execs' = Counted(1)
          /\ assWork' = [assWork EXCEPT ![wbase] = NoFile]
          /\ origWork' = [origWork EXCEPT ![wbase] = FALSE]
          /\ UNCHANGED pfail
  /\ UNCHANGED <<meta, mainv, queue, wbase, wbranch, wm, wmeta, obsv, events, track, sub,
                 tagv, ran, edited, passes, prev, pinv, psaved, pinfo, olast, redo>>

\* lines 222-230: ffmpeg returns; non-zero exit raises.  The resume branch
\* updates the metadata next (line 70), the full pipeline calls step 3.
S2Return(ok) ==
  /\ Alive /\ wpc = "s2_run"
  /\ ran' = IF ok THEN Ran(2) ELSE ran
  /\ IF ok
     THEN /\ wpc' = IF wbranch = "resume" THEN "upd2_load" ELSE "s3"
          /\ pok' = pok \cup {2} /\ execs' = Counted(2)
          /\ UNCHANGED pfail
     ELSE /\ wpc' = Caught /\ pfail' = 2
          /\ UNCHANGED <<pok, execs>>
  /\ redo' = IF ok THEN redo ELSE Excused
  /\ UNCHANGED <<disk, mainv, queue, wbase, wbranch, wm, wmeta, obsv, events, track, sub,
                 tagv, edited, passes, prev, pinv, psaved, pinfo, olast>>

Upd2Load == Reload("upd2_load", "upd2_save")

\* lines 71-75: set ass_to_srt, save_meta; then the check of line 75 on m.
Upd2Save ==
  /\ Alive /\ wpc = "upd2_save"
  /\ meta' = [meta EXCEPT ![wbase] = MarkDone(wmeta, 2)]
  /\ wmeta' = EmptyMeta
  /\ psaved' = psaved \cup {s \in {2} : Flag(meta'[wbase], s)}
  /\ Saves("worker", [kind |-> "s2", hash |-> NoHash], WatcherPending /\ obase = wbase)
  /\ wpc' = AfterConvert(wm)
  /\ UNCHANGED <<files, mainv, queue, wbase, wbranch, wm, obsv, events, track, waitv, savev, tagv,
                 ran, edited, passes, execs, prev, pinv, pok, pfail, pinfo, olast, redo>>

\* lines 245-294: translate_srt_to_chinese.bat returns; non-zero exit
\* raises.  On success the outputs, the working .ass and the artifact copies
\* are moved to Work_room (best effort).
S3Return(ok) ==
  /\ Alive /\ wpc = "s3_run"
  /\ ran' = IF ok THEN Ran(3) ELSE ran
  /\ IF ok
     THEN /\ wpc' = IF wbranch = "resume" THEN "upd3_load" ELSE "fin_load"
          /\ pok' = pok \cup {3} /\ execs' = Counted(3)
          /\ assWork' = [assWork EXCEPT ![wbase] = NoFile]
          /\ UNCHANGED pfail
     ELSE /\ wpc' = Caught /\ pfail' = 3
          /\ UNCHANGED <<assWork, pok, execs>>
  /\ redo' = IF ok THEN redo ELSE Excused
  /\ UNCHANGED <<meta, origWork, mainv, queue, wbase, wbranch, wm, wmeta, obsv, events,
                 track, sub, tagv, edited, passes, prev, pinv, psaved, pinfo, olast>>

Upd3Load == Reload("upd3_load", "upd3_save")

\* lines 79-81: set translate, save_meta.
Upd3Save ==
  /\ Alive /\ wpc = "upd3_save"
  /\ meta' = [meta EXCEPT ![wbase] = MarkDone(wmeta, 3)]
  /\ wmeta' = EmptyMeta
  /\ psaved' = psaved \cup {s \in {3} : Flag(meta'[wbase], s)}
  /\ Saves("worker", [kind |-> "s3", hash |-> NoHash], WatcherPending /\ obase = wbase)
  /\ wpc' = "done"
  /\ UNCHANGED <<files, mainv, queue, wbase, wbranch, wm, obsv, events, track, waitv, savev, tagv,
                 ran, edited, passes, execs, prev, pinv, pok, pfail, pinfo, olast, redo>>

FinLoad == Reload("fin_load", "fin_save")

\* lines 90-93: the full pipeline sets ass_to_srt and translate together.
FinSave ==
  /\ Alive /\ wpc = "fin_save"
  /\ meta' = [meta EXCEPT ![wbase] = MarkDone(MarkDone(wmeta, 2), 3)]
  /\ wmeta' = EmptyMeta
  /\ psaved' = psaved \cup {s \in {2, 3} : Flag(meta'[wbase], s)}
  /\ Saves("worker", [kind |-> "fin", hash |-> NoHash], WatcherPending /\ obase = wbase)
  /\ wpc' = "done"
  /\ UNCHANGED <<files, mainv, queue, wbase, wbranch, wm, obsv, events, track, waitv, savev, tagv,
                 ran, edited, passes, execs, prev, pinv, pok, pfail, pinfo, olast, redo>>

\* lines 95-98: the exception, if any, is logged; work_q.task_done().
WorkerDone ==
  /\ Alive /\ wpc = "done"
  /\ wpc' = "get" /\ wbase' = NoBase /\ wbranch' = "-"
  /\ wm' = NoFlags /\ wmeta' = EmptyMeta
  /\ prev' = IF track = "prev"
             THEN [prev EXCEPT ![wbase] = IF 1 \in pok /\ pfail = 2 THEN "s1ok_s2fail"
                                          ELSE "none"]
             ELSE prev
  /\ pinv' = <<>> /\ pok' = {} /\ pfail' = 0 /\ psaved' = {} /\ pinfo' = NoPass
  /\ wsrc' = NoTag /\ UNCHANGED <<qsrc, nput, nget>>
  /\ UNCHANGED <<disk, mainv, queue, obsv, events, track, sub, ran, edited, passes, execs,
                 olast, redo>>

\* ------------------------------------------------------------------- Next
Next ==
  \/ \E b \in Bases : WavCreated(b)
  \/ \E b \in Bases, c \in Contents : AssWritten(b, c)
  \/ \E b \in Bases, fs \in Steps : MainResume(b, fs)
  \/ MainJoin
  \/ MainInterrupt
  \/ MainExit
  \/ Restart
  \/ \E b \in Bases, stable \in BOOLEAN : WavOnCreated(b, stable)
  \/ \E b \in Bases : ModStart(b)
  \/ \E stable \in BOOLEAN : ModRead(stable)
  \/ ModSave
  \/ WorkerGet
  \/ WorkerLoad
  \/ \E s \in Steps : StartStep(s)
  \/ \E ok \in BOOLEAN, f \in Contents \cup {NoFile} : S1Return(ok, f)
  \/ \E stable \in BOOLEAN : S1Wait(stable)
  \/ S1Save
  \/ S1Move
  \/ \E ok \in BOOLEAN : S2Return(ok)
  \/ Upd2Load
  \/ Upd2Save
  \/ \E ok \in BOOLEAN : S3Return(ok)
  \/ Upd3Load
  \/ Upd3Save
  \/ FinLoad
  \/ FinSave
  \/ WorkerDone

Spec == Init /\ [][Next]_vars

\* The same program with one history recorded.
InitCount == Init /\ track = "count"

SpecCount == InitCount /\ [][Next]_vars

InitPrev == Init /\ track = "prev"

SpecPrev == InitPrev /\ [][Next]_vars

InitObs == Init /\ track = "obs"

SpecObs == InitObs /\ [][Next]_vars

InitRedo == Init /\ track = "redo"

SpecRedo == InitRedo /\ [][Next]_vars

InitRan == Init /\ track = "ran"

SpecRan == InitRan /\ [][Next]_vars

\* ------------------------------------------------------ wait_until_stable
\* The variables of the pipeline.
pipeline == <<disk, mainv, queue, workerv, obsv, events, track, ran, edited, passes,
              execs, prev, passh, olast, redo, tagv, missed>>

\* lines 311-316: the call with its arguments; sz is the size read first.
WaitCall(to, st, p, sz) ==
  /\ wus_pc = "idle"
  /\ timeout' = to /\ stable_time' = st /\ poll' = p
  /\ start' = clock
  /\ last_size' = sz
  /\ stable_since' = clock
  /\ samples' = <<sz>>
  /\ wus_pc' = "poll"
  /\ UNCHANGED <<clock, ret, pipeline, savev>>

\* lines 319-333: one turn of the loop; sz is the size read after the sleep.
WaitPoll(sz) ==
  /\ wus_pc = "poll"
  /\ clock' = clock + poll
  /\ samples' = Append(samples, sz)
  /\ IF sz = last_size
     THEN /\ UNCHANGED <<last_size, stable_since>>
          /\ IF StableFor(clock', stable_since, stable_time)
             THEN ret' = "True" /\ wus_pc' = "returned"
             ELSE IF TimedOut(clock', start, timeout)
             THEN ret' = "False" /\ wus_pc' = "returned"
             ELSE UNCHANGED <<ret, wus_pc>>
     ELSE /\ stable_since' = clock'
          /\ last_size' = sz
          /\ IF TimedOut(clock', start, timeout)
             THEN ret' = "False" /\ wus_pc' = "returned"
             ELSE UNCHANGED <<ret, wus_pc>>
  /\ UNCHANGED <<timeout, stable_time, poll, start, pipeline, savev>>

\* The caller has the result; the next call starts afresh.
WaitReset ==
  /\ wus_pc = "returned"
  /\ wus_pc' = "idle" /\ timeout' = 0 /\ stable_time' = 0 /\ poll' = 0
  /\ clock' = 0 /\ start' = 0 /\ last_size' = UnknownSize /\ stable_since' = 0
  /\ ret' = "none" /\ samples' = <<>>
  /\ UNCHANGED <<pipeline, savev>>

NextWait ==
  \/ \E to \in 0..MaxTimeout, st \in 0..MaxStable, p \in 1..MaxPoll, sz \in Sizes :
       WaitCall(to, st, p, sz)
  \/ \E sz \in Sizes : WaitPoll(sz)
  \/ WaitReset

InitWait == Init /\ track = "wait" /\ mode = "watch"

SpecWait == InitWait /\ [][NextWait]_vars

\* ---------------------------------------------------- save_meta, load_meta
\* lines 131-132: open(tmp, "w") creates or truncates the temporary file.
SaveOpen(t, r) ==
  /\ spc[t] = "idle"
  /\ tmpFile' = <<>>
  /\ spc' = [spc EXCEPT ![t] = "opened"]
  /\ srec' = [srec EXCEPT ![t] = r]
  /\ sfd' = [sfd EXCEPT ![t] = "tmp"]
  /\ saved' = saved \cup {r}
  /\ UNCHANGED <<metaFile, loaded, pipeline, waitv>>

\* line 133 and the end of the with block: the text is written to the file
\* the handle refers to, and the handle is closed.
SaveDump(t) ==
  /\ spc[t] = "opened"
  /\ tmpFile' = IF sfd[t] = "tmp" THEN WriteAt0(tmpFile, dumps(srec[t])) ELSE tmpFile
  /\ metaFile' = IF sfd[t] = "meta" THEN WriteAt0(metaFile, dumps(srec[t])) ELSE metaFile
  /\ spc' = [spc EXCEPT ![t] = "closed"]
  /\ sfd' = [sfd EXCEPT ![t] = "none"]
  /\ UNCHANGED <<srec, loaded, saved, pipeline, waitv>>

\* line 134: os.replace(tmp, meta_path(base)).  It raises when the temporary
\* file is gone; when another handle is open on it the platform either
\* refuses (renames = FALSE) or renames the file under the handle.
SaveReplace(t, renames) ==
  /\ spc[t] = "closed"
  /\ spc' = [spc EXCEPT ![t] = "idle"]
  /\ srec' = [srec EXCEPT ![t] = {}]
  /\ IF tmpFile = NoText \/ (~renames /\ \E u \in Threads : sfd[u] = "tmp")
     THEN UNCHANGED <<metaFile, tmpFile, sfd>>
     ELSE /\ metaFile' = tmpFile
          /\ tmpFile' = NoText
          /\ sfd' = [u \in Threads |-> IF sfd[u] = "tmp" THEN "meta"
                                        ELSE IF sfd[u] = "meta" THEN "gone"
                                        ELSE sfd[u]]
  /\ UNCHANGED <<loaded, saved, pipeline, waitv>>

\* lines 121-127: load_meta by any thread.
LoadMeta ==
  /\ loaded' = load_meta(metaFile)
  /\ loaded' # loaded
  /\ UNCHANGED <<metaFile, tmpFile, spc, srec, sfd, saved, pipeline, waitv>>

\* The process dies between two steps of save_meta; the files stay as they
\* are, what was not written is lost.
Crash ==
  /\ \E t \in Threads : spc[t] # "idle"
  /\ spc' = [t \in Threads |-> "idle"]
  /\ srec' = [t \in Threads |-> {}]
  /\ sfd' = [t \in Threads |-> "none"]
  /\ loaded' = NotLoaded
  /\ UNCHANGED <<metaFile, tmpFile, saved, pipeline, waitv>>

NextSave ==
  \/ \E t \in Threads : \E r \in Passes(t) : SaveOpen(t, r)
  \/ \E t \in Threads : SaveDump(t)
  \/ \E t \in Threads, renames \in BOOLEAN : SaveReplace(t, renames)
  \/ LoadMeta
  \/ Crash

InitSave == Init /\ track = "save" /\ mode = "watch"

SpecSave == InitSave /\ [][NextSave]_vars

\* A step of the worker thread.
WorkerRun ==
  \/ WorkerGet
  \/ WorkerLoad
  \/ \E s \in Steps : StartStep(s)
  \/ \E ok \in BOOLEAN, f \in Contents \cup {NoFile} : S1Return(ok, f)
  \/ \E stable \in BOOLEAN : S1Wait(stable)
  \/ S1Save
  \/ S1Move
  \/ \E ok \in BOOLEAN : S2Return(ok)
  \/ Upd2Load
  \/ Upd2Save
  \/ \E ok \in BOOLEAN : S3Return(ok)
  \/ Upd3Load
  \/ Upd3Save
  \/ FinLoad
  \/ FinSave
  \/ WorkerDone

\* The pipeline with one more history recorded.
InitSrc == Init /\ track = "src"

SpecSrc == InitSrc /\ [][Next]_vars

InitFifo == Init /\ track = "fifo"

SpecFifo == InitFifo /\ [][Next]_vars

InitRmw == Init /\ track = "rmw"

SpecRmw == InitRmw /\ [][Next]_vars

\* ================================================================= claims
Invoked == {pinv[i] : i \in DOMAIN pinv}

\* The worker calls step s in this step of the behaviour.
Invokes(s) == wpc = <<"s1", "s2", "s3">>[s] /\ wpc' = <<"s1_run", "s2_run", "s3_run">>[s]

\* Steps 2 and 3 whose flag is not set in the record the pass loaded.
Unset(m) == {s \in {2, 3} : ~Flag(m, s)}

\* C1: for a base name enqueued twice and processed twice with no .ass
\* modification event, each step runs to completion at most once over the
\* two passes.
C1_AtMostOnce ==
  \A b \in Bases :
    (track = "count" /\ ~edited[b] /\ passes[b] <= 2)
      => \A s \in Steps : execs[b][s] <= 1

\* C2: in the pass that follows a pass in which step 1 returned normally and
\* step 2's external call failed, step 1 is not invoked and step 2 is.
C2_RetrySkipsStep1 ==
  (track = "prev" /\ wbase \in Bases /\ prev[wbase] = "s1ok_s2fail")
    => /\ 1 \notin Invoked
       /\ wpc = "done" => 2 \in Invoked

\* C3: the worker never calls a step whose completion flag is true in the
\* persisted record of the base name, in either branch of worker_loop.
C3_NeverInvokeCompleted ==
  [][\A s \in Steps : Invokes(s) => ~Flag(meta[wbase], s)]_vars

\* C4 as stated: in a pass whose loaded record has process_audio, step 1 is
\* never invoked, exactly the steps among 2 and 3 whose flags are not set in
\* the loaded record are invoked, 2 before 3, and the flag of each is
\* persisted right after the step returns successfully.
C4_ResumeRunsExactlyUnset ==
  wbranch = "resume"
    => /\ 1 \notin Invoked
       /\ pinv \in {<<>>, <<2>>, <<3>>, <<2, 3>>}
       /\ Invoked \subseteq Unset(wm)
       /\ wpc = "done" => Invoked = Unset(wm)
       /\ (2 \in pok /\ wpc \in {"s3", "s3_run", "upd3_load", "upd3_save", "done"})
            => 2 \in psaved
       /\ (3 \in pok /\ wpc = "done") => 3 \in psaved

\* C4 amended: as C4, but exactly the unset steps are invoked only in a pass
\* in which no step fails; a failed step ends the pass.
C4_ResumeRunsUnset ==
  wbranch = "resume"
    => /\ 1 \notin Invoked
       /\ pinv \in {<<>>, <<2>>, <<3>>, <<2, 3>>}
       /\ Invoked \subseteq Unset(wm)
       /\ (wpc = "done" /\ pfail = 0) => Invoked = Unset(wm)
       /\ (wpc = "done" /\ pfail # 0) => pfail = pinv[Len(pinv)]
       /\ (2 \in pok /\ wpc \in {"s3", "s3_run", "upd3_load", "upd3_save", "done"})
            => 2 \in psaved
       /\ (3 \in pok /\ wpc = "done") => 3 \in psaved

\* C4 witness: a resume-branch pass that ran steps 2 and 3 and persisted
\* both flags.
C4_Witness ==
  /\ wbranch = "resume" /\ wpc = "done" /\ pfail = 0
  /\ pinv = <<2, 3>> /\ psaved = {2, 3}
  /\ wm.process_audio /\ ~wm.ass_to_srt /\ ~wm.translate

\* C5: a pass for a base name without metadata record in which the three
\* steps return normally, the stability wait does not time out and no .ass
\* modification event occurs ends with the three flags set and ass_hash the
\* hash of the content step 1 produced.
C5_FreshRunCompletes ==
  \A b \in Bases :
    (track = "count" /\ wbase = b /\ wpc = "done" /\ pinfo.fresh /\ pok = {1, 2, 3}
       /\ ~pinfo.timedOut /\ ~edited[b])
      => /\ meta[b].process_audio /\ meta[b].ass_to_srt /\ meta[b].translate
         /\ meta[b].ass_hash = file_hash(pinfo.content)

\* C6: a full-pipeline pass in which step 2 returns normally and step 3's
\* external call fails leaves ass_to_srt true in the persisted record.
C6_FullPipelineKeepsStep2 ==
  (wbranch = "full" /\ wpc = "done" /\ 2 \in pok /\ pfail = 3)
    => meta[wbase].ass_to_srt

\* C7 as stated: a completion flag is true in the persisted record only if
\* the step's external call has returned success for the base name, and
\* process_audio only once step 1 has moved the subtitle files to the
\* artifact area.
C7_FlagOnlyAfterSuccessAndMove ==
  \A b \in Bases :
    track = "ran" =>
      /\ \A s \in Steps : Flag(meta[b], s) => s \in ran[b].run
      /\ meta[b].process_audio => ~(wbase = b /\ wpc = "s1_move")

\* C7 amended: a completion flag is true in the persisted record only if the
\* step's external call has returned success for the base name or --resume
\* has seeded the flag; step 1 persists process_audio after its external
\* call, the existence check and the stability wait have succeeded, and it
\* does so before it moves the subtitle files.
C7_FlagOnlyAfterSuccessOrSeed ==
  \A b \in Bases :
    track = "ran" =>
      /\ \A s \in Steps : Flag(meta[b], s) => s \in ran[b].run \cup ran[b].seed
      /\ (wbase = b /\ 1 \in psaved)
           => (1 \in ran[b].run /\ pinfo.content # NoFile /\ ~pinfo.timedOut)
      /\ (wbase = b /\ wpc = "s1_move") => 1 \in psaved

\* C7 witness: step 1 has persisted process_audio after a successful
\* external call and has not moved the files yet.
C7_Witness ==
  /\ track = "ran" /\ wbase \in Bases /\ wpc = "s1_move"
  /\ meta[wbase].process_audio /\ 1 \in ran[wbase].run /\ ran[wbase].seed = {}
  /\ assWork[wbase] # NoFile /\ origWork[wbase]

\* on_modified returns in this step having found the hash it computed
\* different from / equal to the ass_hash of the record it loaded.
ModReturnsChanged == opc = "mod_cmp" /\ opc' = "idle" /\ ometa.ass_hash # onew

ModReturnsSame == opc = "mod_cmp" /\ opc' = "idle" /\ ometa.ass_hash = onew

ModGivesUp == opc = "mod_wait" /\ opc' = "idle"

\* C8: when on_modified finds a hash different from the stored one it saves
\* the record with ass_hash the new hash, ass_to_srt and translate cleared,
\* process_audio and last_updated as loaded, touches no other record, and
\* appends the base name to the queue once.
C8_EditClearsDownstream ==
  [][ModReturnsChanged =>
       /\ meta'[obase].ass_hash = onew
       /\ ~meta'[obase].ass_to_srt /\ ~meta'[obase].translate
       /\ meta'[obase].process_audio = ometa.process_audio
       /\ meta'[obase].last_updated = ometa.last_updated
       /\ \A b \in Bases \ {obase} : meta'[b] = meta[b]
       /\ Len(queue') = Len(queue) + 1
       /\ SubSeq(queue', 1, Len(queue)) = queue
       /\ queue'[Len(queue')] = obase]_vars

\* C8 witness: the handler detected an edit of a record that had
\* process_audio and a time stamp: the flags are cleared, the hash is
\* replaced, the base name is last in the queue.
C8_Witness ==
  /\ olast = "changed"
  /\ \E b \in Bases :
       /\ meta[b].process_audio /\ ~meta[b].ass_to_srt /\ ~meta[b].translate
       /\ meta[b].ass_hash \in Hashes /\ meta[b].last_updated = utcnow
       /\ queue # <<>> /\ queue[Len(queue)] = b

\* C9: when on_modified finds the hash equal to the stored one, or gives up
\* (stability timeout, unreadable file), it changes neither the metadata nor
\* the queue.
C9_NoOpSaveLeavesState ==
  [][(ModReturnsSame \/ ModGivesUp) => (meta' = meta /\ queue' = queue)]_vars

\* C9 witness: the handler returned on an equal hash for a record with
\* process_audio set.
C9_Witness ==
  /\ olast = "same"
  /\ \E b \in Bases : meta[b].process_audio /\ meta[b].ass_hash \in Hashes

\* C10: once the watcher has detected changed content for a base name, the
\* record is not left with ass_to_srt and translate both true, with no pass
\* for the base name queued or in progress, unless step 2 and then step 3
\* were invoked after the detection.
C10_EditForcesRerun ==
  \A b \in Bases :
    (track = "redo" /\ redo[b].detected /\ meta[b].ass_to_srt /\ meta[b].translate
       /\ wbase # b /\ \A i \in DOMAIN queue : queue[i] # b)
      => (redo[b].re2 /\ redo[b].re3)

\* C11: a pass for a queue entry put by on_modified never invokes step 1,
\* whatever the record of the base name held when the edit was detected.
C11_EditPassSkipsStep1 ==
  (track = "src" /\ wsrc.src = "ass") => 1 \notin Invoked

\* While the process lives, a failure takes the worker to the finally block,
\* and from there it returns to work_q.get() and leaves the queue alone.
ErrorEndsPass ==
  /\ ((Alive /\ pfail = 0 /\ pfail' # 0) => wpc' = "done")
  /\ ((Alive /\ wpc = "done" /\ wpc' # wpc) => (wpc' = "get" /\ queue' = queue))

\* While the process lives the worker has not left its loop, and unless it
\* waits at the empty queue its next step is enabled (the external calls
\* return).
WorkerGoesOn ==
  Alive => /\ wpc # "stopped"
           /\ (wpc = "get" /\ queue = <<>>) \/ ENABLED WorkerRun

\* C12: an exception raised by a step does not end the worker: the pass
\* ends at the finally block and the worker returns to work_q.get(); while
\* the process lives the worker can always take its next step, so a failed
\* pass ends, every queued identifier is dequeued and its pass ends.
C12_WorkerSurvivesErrors == [][ErrorEndsPass]_vars /\ []WorkerGoesOn

\* C12 witness: a step has failed in the pass of one identifier while
\* another identifier waits in the queue.
C12_Witness ==
  /\ mode = "watch" /\ Alive
  /\ wpc = "done" /\ pfail # 0 /\ wbase \in Bases
  /\ queue # <<>>

\* A step of the worker that belongs to its pass for wbase.
InPass == wbase \in Bases /\ wbase' = wbase /\ wpc' # wpc

\* Within a pass the worker clears no flag of any record.
KeepsFlags == \A b \in Bases, s \in Steps : Flag(meta[b], s) => Flag(meta'[b], s)

\* C13: when a step fails in a pass (its external call exits non-zero, or
\* the subtitle file is missing after step 1's call) the pass invokes no
\* later step, the pass has not persisted the failed step's flag, and no
\* step of the pass clears a flag that was true in a record.
C13_FailureAbortsPass ==
  [][InPass =>
       /\ pfail' # 0 => /\ wpc' = "done"
                        /\ pinv' # <<>> /\ pinv'[Len(pinv')] = pfail'
                        /\ \A i \in DOMAIN pinv' : pinv'[i] <= pfail'
                        /\ pfail' \notin psaved'
       /\ KeepsFlags]_vars

\* C13 witness: the resume branch persisted ass_to_srt, then step 3 failed;
\* process_audio and ass_to_srt are still true in the record.
C13_Witness ==
  /\ wbranch = "resume" /\ wpc = "done" /\ pfail = 3 /\ pinv = <<2, 3>>
  /\ psaved = {2}
  /\ meta[wbase].process_audio /\ meta[wbase].ass_to_srt /\ ~meta[wbase].translate

\* The queue changes by a put at its tail that leaves the worker alone, or by
\* the worker, between two passes, taking its oldest entry.
QueueStep ==
  \/ /\ Len(queue') = Len(queue) + 1
     /\ SubSeq(queue', 1, Len(queue)) = queue
     /\ SubSeq(qsrc', 1, Len(qsrc)) = qsrc
     /\ wpc' = wpc /\ wbase' = wbase /\ nget' = nget
  \/ /\ wpc = "get" /\ wbase = NoBase /\ pinv = <<>>
     /\ wpc' = "load" /\ wbase' = Head(queue)
     /\ queue' = Tail(queue) /\ qsrc' = Tail(qsrc)
     /\ wsrc'.no = nget

\* The tickets of the waiting entries are the next ones in put order.
TicketsInOrder ==
  /\ Len(qsrc) = Len(queue)
  /\ \A i \in DOMAIN qsrc : qsrc[i].no = (nget + i - 1) % TicketMod

\* C14: identifiers are processed in the order they were enqueued and one at
\* a time: the queue changes only by a put at the tail or by the worker
\* taking the oldest entry when no pass is in progress, so the k-th entry put
\* is the k-th entry processed.
C14_FifoOneAtATime ==
  /\ [][(track = "fifo" /\ Alive /\ queue' # queue) => QueueStep]_vars
  /\ [](track = "fifo" => TicketsInOrder)

\* C14 witness: the worker is in the pass of the second entry put while the
\* third and the fourth wait in put order.
C14_Witness ==
  /\ track = "fifo" /\ wpc = "s2_run" /\ wsrc.no = 1
  /\ Len(queue) = 2 /\ qsrc[1].no = 2 /\ qsrc[2].no = 0

\* C15: on Ctrl+C in watch mode the watchers are stopped, then the worker is
\* given a sentinel and ends its loop before the process exits; in
\* particular the process does not exit while a pass is in progress.
C15_ShutdownCompletesPass ==
  (mode = "watch" /\ mpc = "exited") => (wpc \in {"get", "stopped"} /\ wbase = NoBase)

\* C16: the pass for the entry put by --resume with --from-step s invokes no
\* step numbered below s and invokes step s first, whatever the record of
\* the base name held before the flags below s were seeded.
C16_ResumeStartsAtStep ==
  (track = "src" /\ wsrc.src = "resume")
    => /\ \A i \in DOMAIN pinv : pinv[i] >= wsrc.no
       /\ pinv # <<>> => pinv[1] = wsrc.no
       /\ wpc = "done" => pinv # <<>>

\* Worker passes started since the process started.
PassesStarted == passes[CHOOSE b \in Bases : TRUE]

\* The main thread of --resume or the worker can take a step.
ResumeGoesOn == ENABLED WorkerRun \/ ENABLED MainJoin
                \/ ENABLED (\E b \in Bases, fs \in Steps : MainResume(b, fs))

\* C17: in resume mode no watcher runs, exactly one identifier is enqueued,
\* the process exits only when the worker has finished the pass for it, and
\* until it has exited the main thread or the worker can take a step, so it
\* does exit, whether the pass ended in success or in an error.
C17_ResumeDrainsAndExits ==
  (track = "count" /\ mode = "resume")
    => /\ opc = "idle" /\ wavPending = {} /\ modPending = {}
       /\ mpc = "resume" => (queue = <<>> /\ PassesStarted = 0)
       /\ mpc # "resume" => Len(queue) + PassesStarted = 1
       /\ mpc = "exited" => (queue = <<>> /\ wpc = "get" /\ wbase = NoBase)
       /\ mpc # "exited" => ResumeGoesOn

\* C17 witness: the process of --resume --from-step 2 has exited after a
\* pass in which step 2 failed.
C17_Witness ==
  /\ track = "count" /\ mode = "resume" /\ mpc = "exited"
  /\ PassesStarted = 1
  /\ \E b \in Bases : meta[b].process_audio /\ ~meta[b].ass_to_srt /\ ~meta[b].translate
                      /\ meta[b].ass_hash = NoHash

\* The polls the call has made, and the time they took.
Polls == Len(samples) - 1

Elapsed == Polls * poll

\* The last k + 1 sizes sampled are equal.
Unchanged(k) ==
  /\ k + 1 <= Len(samples)
  /\ \A i \in (Len(samples) - k)..Len(samples) : samples[i] = samples[Len(samples)]

\* The sampled size has been unchanged over consecutive polls for at least
\* stable_time.
StableSeen == \E k \in 1..Polls : Unchanged(k) /\ k * poll >= stable_time

\* C18: wait_until_stable returns true only when the sampled size has been
\* unchanged over consecutive polls for at least stable_time, false only
\* when more than timeout has elapsed without that; while it polls neither
\* has happened, so it returns at the first poll at which one of them has,
\* and it has always returned by the first poll after timeout.
C18_StableOrTimeout ==
  track = "wait" =>
    /\ ret = "True" => StableSeen
    /\ ret = "False" => (Elapsed > timeout /\ ~StableSeen)
    /\ wus_pc = "poll" => (ret = "none" /\ ~StableSeen /\ Elapsed <= timeout)
    /\ wus_pc = "returned" => ret \in {"True", "False"}

\* C18 witness: the size changed at the first poll, then stayed for two
\* polls of one tick, and the call returned true for stable_time 2.
C18_Witness ==
  /\ track = "wait" /\ ret = "True" /\ poll = 1 /\ stable_time = 2
  /\ Len(samples) = 4 /\ samples[1] # samples[2]
  /\ samples[2] = samples[3] /\ samples[3] = samples[4] /\ samples[4] # UnknownSize

\* C19: wait_until_stable does not raise on a missing file and does not
\* report stability on an unknown size: it returns true only when a known
\* size has been unchanged for stable_time.
C19_UnknownSizeNotStable ==
  (track = "wait" /\ ret = "True") => samples[Len(samples)] # UnknownSize

\* C20: load_meta never sees a partial file: whatever it returns is the empty
\* record or a record that was passed whole to save_meta, also after an
\* interrupted save.
C20_LoadSeesWholeRecord ==
  track = "save" =>
    /\ loaded.kind # "error"
    /\ loaded.kind = "record" => loaded.rec \in saved \cup {{}}

\* C21: the worker never calls step 2 or step 3 for a base name whose
\* persisted record has process_audio false: when step 1 has returned
\* without raising, process_audio is true before step 2 starts.
C21_Step1FlagBeforeStep2 ==
  [][\A s \in {2, 3} : Invokes(s) => meta[wbase].process_audio]_vars

\* The flags of a record are downward closed.
DownwardClosed(m) == (m.translate => m.ass_to_srt) /\ (m.ass_to_srt => m.process_audio)

\* C22: in every reachable state the completion flags of every persisted
\* record are downward closed: translate implies ass_to_srt, and ass_to_srt
\* implies process_audio.
C22_FlagsDownwardClosed == \A b \in Bases : DownwardClosed(meta[b])

\* The record m after the update op.
Apply(op, m) ==
  IF op.kind = "pop" THEN PopDownstream(m, op.hash)
  ELSE IF op.kind = "s1" THEN MarkDone([m EXCEPT !.ass_hash = op.hash], 1)
  ELSE IF op.kind = "s2" THEN MarkDone(m, 2)
  ELSE IF op.kind = "s3" THEN MarkDone(m, 3)
  ELSE IF op.kind = "fin" THEN MarkDone(MarkDone(m, 2), 3)
  ELSE m

\* The update the worker is about to save.
WorkerOp ==
  IF wpc = "s1_save" THEN [kind |-> "s1", hash |-> file_hash(assWork[wbase])]
  ELSE IF wpc = "upd2_save" THEN [kind |-> "s2", hash |-> NoHash]
  ELSE IF wpc = "upd3_save" THEN [kind |-> "s3", hash |-> NoHash]
  ELSE [kind |-> "fin", hash |-> NoHash]

\* The worker / on_modified calls save_meta in this step of the behaviour.
WorkerSaves ==
  Alive /\ WorkerPending /\ wpc' # wpc /\ ~(wpc = "s1_save" /\ assWork[wbase] = NoFile)

WatcherSaves == Alive /\ ModReturnsChanged

\* The record of b after the save of thread t is what the update op of t
\* gives on the record as it was on disk, or what the update the other
\* thread saved since t's load gives on the record t saves.
Serial(b, op, t) ==
  \/ meta'[b] = Apply(op, meta[b])
  \/ missed[t] # NoOp /\ meta'[b] = Apply(missed[t], meta'[b])

\* C23: a read-modify-write of a record by the worker and one by
\* on_modified on the same base name never lose an update: whatever the
\* interleaving of their load_meta and save_meta, the record after the later
\* save is the result of the two updates applied one after the other in
\* some order.
C23_NoLostUpdate ==
  [][track = "rmw" =>
       /\ WorkerSaves => Serial(wbase, WorkerOp, "worker")
       /\ WatcherSaves => Serial(obase, [kind |-> "pop", hash |-> onew], "watcher")]_vars

====
